---- MODULE Spec2Model ----
(***************************************************************************)
(* MynaAPI: the query-routing and RAG-response pipeline.                   *)
(*                                                                         *)
(* Text is modelled as sequences of one-character strings, so that         *)
(* str.lower() and Python's substring test `k in s` are computed rather    *)
(* than assumed.  Confidences are hundredths (0.5 is 50, 0.8 is 80).       *)
(* Values that come out of json.loads or out of a dict lookup are tagged   *)
(* records: Str(s), Num(n), NoneV (JSON null / Python None) and Missing    *)
(* (the key is not in the dict).                                           *)
(***************************************************************************)
EXTENDS Integers, Sequences, FiniteSets, TLC

\* ------------------------------------------------------------------ text

UpperAlpha ==
    <<"A","B","C","D","E","F","G","H","I","J","K","L","M",
      "N","O","P","Q","R","S","T","U","V","W","X","Y","Z">>

LowerAlpha ==
    <<"a","b","c","d","e","f","g","h","i","j","k","l","m",
      "n","o","p","q","r","s","t","u","v","w","x","y","z">>

LowerChar(c) ==
    IF \E i \in 1..26 : UpperAlpha[i] = c
    THEN LowerAlpha[CHOOSE i \in 1..26 : UpperAlpha[i] = c]
    ELSE c

UpperChar(c) ==
    IF \E i \in 1..26 : LowerAlpha[i] = c
    THEN UpperAlpha[CHOOSE i \in 1..26 : LowerAlpha[i] = c]
    ELSE c

\* str.lower()
Lower(s) == [i \in 1..Len(s) |-> LowerChar(s[i])]

\* str.upper()
Upper(s) == [i \in 1..Len(s) |-> UpperChar(s[i])]

\* Python's `needle in hay` on strings
Contains(hay, needle) ==
    \E i \in 1..(Len(hay) - Len(needle) + 1) :
        SubSeq(hay, i, i + Len(needle) - 1) = needle

\* any(keyword in text for keyword in keywords)
AnyIn(keywords, text) ==
    \E k \in 1..Len(keywords) : Contains(text, keywords[k])

\* ---------------------------------------------------------------- values

Str(s) == [t |-> "str", s |-> s, n |-> 0]
Num(n) == [t |-> "num", s |-> <<>>, n |-> n]
NoneV == [t |-> "none", s |-> <<>>, n |-> 0]
Missing == [t |-> "absent", s |-> <<>>, n |-> 0]

\* dict.get(key, default)
Get(v, default) == IF v = Missing THEN default ELSE v

TNEA == <<"T", "N", "E", "A">>
FUTURE == <<"F", "U", "T", "U", "R", "E">>
ERROR == <<"E", "R", "R", "O", "R">>

\* ------------------------------------------------------------ exceptions

ExcKinds == {"APIError", "TypeError", "AttributeError", "JSONDecodeError",
             "PineconeError", "SinkError"}

Ret(v) == [tag |-> "ret", val |-> v, exc |-> "none"]
Raise(e) == [tag |-> "exc", val |-> NoneV, exc |-> e]

\* an except clause that names one exception class only
ExceptNarrow(e) == e = "APIError"

\* the clause `except Exception`: every exception of the model is one
ExceptException(e) == e \in ExcKinds

\* the clause `except json.JSONDecodeError`
ExceptJSONDecodeError(e) == e = "JSONDecodeError"

\* ------------------------------------------------------ intent classifier

\* analyze_intent: the domain keyword list
engineering_keywords ==
    << <<"e", "n", "g", "i", "n", "e", "e", "r", "i", "n", "g">>,
       <<"c", "o", "m", "p", "u", "t", "e", "r", " ", "s", "c", "i", "e", "n", "c", "e">>,
       <<"c", "s">>,
       <<"i", "t">>,
       <<"i", "n", "f", "o", "r", "m", "a", "t", "i", "o", "n", " ", "t", "e", "c", "h", "n", "o", "l", "o", "g", "y">>,
       <<"e", "c", "e">>,
       <<"e", "l", "e", "c", "t", "r", "o", "n", "i", "c", "s">>,
       <<"m", "e", "c", "h", "a", "n", "i", "c", "a", "l">>,
       <<"c", "i", "v", "i", "l">>,
       <<"c", "h", "e", "m", "i", "c", "a", "l">>,
       <<"b", "i", "o", "t", "e", "c", "h", "n", "o", "l", "o", "g", "y">>,
       <<"c", "u", "t", "o", "f", "f">>,
       <<"m", "a", "r", "k", "s">>,
       <<"s", "c", "o", "r", "e">>,
       <<"a", "d", "m", "i", "s", "s", "i", "o", "n">>,
       <<"s", "e", "a", "t">>,
       <<"c", "o", "l", "l", "e", "g", "e">>,
       <<"t", "n", "e", "a">>,
       <<"a", "n", "n", "a", " ", "u", "n", "i", "v", "e", "r", "s", "i", "t", "y">>,
       <<"e", "n", "g", "i", "n", "e", "e", "r", "i", "n", "g", " ", "c", "o", "l", "l", "e", "g", "e">> >>

\* analyze_intent: the out-of-domain keyword list
medical_keywords ==
    << <<"m", "e", "d", "i", "c", "a", "l">>,
       <<"n", "e", "e", "t">>,
       <<"m", "b", "b", "s">>,
       <<"d", "o", "c", "t", "o", "r">>,
       <<"m", "e", "d", "i", "c", "i", "n", "e">> >>

\* analyze_intent: the marks/score words of the last branch
marks_words ==
    << <<"m", "a", "r", "k">>,
       <<"s", "c", "o", "r", "e">>,
       <<"p", "o", "i", "n", "t">> >>

\* analyze_intent: the college/admission words of the last branch
college_words ==
    << <<"c", "o", "l", "l", "e", "g", "e">>,
       <<"a", "d", "m", "i", "s", "s", "i", "o", "n">>,
       <<"s", "e", "a", "t">>,
       <<"g", "e", "t">> >>
\* "What is the cutoff for CSE in X College?"
QCutoff ==
    <<"W", "h", "a", "t", " ", "i", "s", " ", "t", "h", "e", " ", "c", "u", "t", "o", "f", "f", " ", "f", "o", "r", " ", "C", "S", "E", " ", "i", "n", " ", "X", " ", "C", "o", "l", "l", "e", "g", "e", "?">>

\* "Tell me about NEET medical admissions"
QNeet ==
    <<"T", "e", "l", "l", " ", "m", "e", " ", "a", "b", "o", "u", "t", " ", "N", "E", "E", "T", " ", "m", "e", "d", "i", "c", "a", "l", " ", "a", "d", "m", "i", "s", "s", "i", "o", "n", "s">>

\* "NEET doctor"
QDoctor ==
    <<"N", "E", "E", "T", " ", "d", "o", "c", "t", "o", "r">>

\* "Mark 180, what do I get?"
QMark ==
    <<"M", "a", "r", "k", " ", "1", "8", "0", ",", " ", "w", "h", "a", "t", " ", "d", "o", " ", "I", " ", "g", "e", "t", "?">>

\* "Hello"
QHello ==
    <<"H", "e", "l", "l", "o">>

\* "MBBS or Arts job"
QArts ==
    <<"M", "B", "B", "S", " ", "o", "r", " ", "A", "r", "t", "s", " ", "j", "o", "b">>

\* "BCom or job?"
QCommerce ==
    <<"B", "C", "o", "m", " ", "o", "r", " ", "j", "o", "b", "?">>

\* "Placement record"
QPlacement ==
    <<"P", "l", "a", "c", "e", "m", "e", "n", "t", " ", "r", "e", "c", "o", "r", "d">>

\* the reply text "Intent: TNEA"
TextTnea ==
    <<"I", "n", "t", "e", "n", "t", ":", " ", "T", "N", "E", "A">>

\* the reply text "not sure"
TextPlain ==
    <<"n", "o", "t", " ", "s", "u", "r", "e">>

\* the reply text ""
TextEmpty ==
    << >>

\* a dict with the keys intent, confidence, reasoning (Missing: no such key)
Dict(i, c, r) == [isDict |-> TRUE, intent |-> i, confidence |-> c, reasoning |-> r]

\* a JSON value that is not an object (a number, a string, an array)
NonDict == [isDict |-> FALSE, intent |-> Missing, confidence |-> Missing, reasoning |-> <<>>]

\* the replies of the chat completion: it raises, or its message content is
\* None, or text that is not JSON, or text that is the JSON encoding of value
ReplyRaise == [kind |-> "raise", text |-> <<>>, value |-> NonDict]
ReplyNull == [kind |-> "null", text |-> <<>>, value |-> NonDict]
ReplyText(x) == [kind |-> "text", text |-> x, value |-> NonDict]
ReplyJson(v) == [kind |-> "json", text |-> <<>>, value |-> v]

\* json.loads(response)
json_loads(reply) ==
    CASE reply.kind = "null" -> Raise("TypeError")
      [] reply.kind = "text" -> Raise("JSONDecodeError")
      [] OTHER -> Ret(reply.value)

has_engineering_terms(user_query) == AnyIn(engineering_keywords, Lower(user_query))

has_medical_terms(user_query) == AnyIn(medical_keywords, Lower(user_query))

has_marks(user_query) == AnyIn(marks_words, Lower(user_query))

has_college(user_query) == AnyIn(college_words, Lower(user_query))

\* the heuristic with its first test reduced to has_medical_terms
KeywordHeuristicMedicalFirst(user_query, response) ==
    LET response_lower == Lower(response)
    IN  IF has_medical_terms(user_query)
        THEN Dict(Str(FUTURE), Num(80), <<"Detected medical keywords">>)
        ELSE IF has_engineering_terms(user_query) \/ Contains(response_lower, Lower(TNEA))
        THEN Dict(Str(TNEA), Num(80), <<"Detected engineering/admission keywords">>)
        ELSE IF has_marks(user_query) /\ has_college(user_query)
        THEN Dict(Str(TNEA), Num(70), <<"Mentions marks and college - likely engineering admission">>)
        ELSE Dict(Str(FUTURE), Num(50), <<"Could not parse JSON, no clear engineering indicators">>)

\* the branch of analyze_intent taken on json.JSONDecodeError
KeywordHeuristic(user_query, response) ==
    LET response_lower == Lower(response)
    IN  IF has_medical_terms(user_query) /\ ~has_engineering_terms(user_query)
        THEN Dict(Str(FUTURE), Num(80), <<"Detected medical keywords">>)
        ELSE IF has_engineering_terms(user_query) \/ Contains(response_lower, Lower(TNEA))
        THEN Dict(Str(TNEA), Num(80), <<"Detected engineering/admission keywords">>)
        ELSE IF has_marks(user_query) /\ has_college(user_query)
        THEN Dict(Str(TNEA), Num(70), <<"Mentions marks and college - likely engineering admission">>)
        ELSE Dict(Str(FUTURE), Num(50), <<"Could not parse JSON, no clear engineering indicators">>)

\* an error verdict that claims the domain
ErrorVerdictLoud(e) == Dict(Str(TNEA), Num(100), <<"Error in analysis: ", e>>)

\* the verdict of the outer except clause of analyze_intent
ErrorVerdict(e) == Dict(Str(FUTURE), Num(0), <<"Error in analysis: ", e>>)

\* OpenAIService.analyze_intent: Ret(verdict) or Raise(e)
analyze_intent(user_query, reply) ==
    LET completion == IF reply.kind = "raise" THEN Raise("APIError") ELSE Ret(reply)
        parsed == IF completion.tag = "exc" THEN completion ELSE json_loads(reply)
        inner == IF parsed.tag = "exc" /\ ExceptJSONDecodeError(parsed.exc)
                 THEN Ret(KeywordHeuristic(user_query, reply.text))
                 ELSE parsed
    IN  IF inner.tag = "exc" /\ ExceptException(inner.exc)
        THEN Ret(ErrorVerdict(inner.exc))
        ELSE inner

\* ---------------------------------------------------------- graph state

Absent == "<absent>"
NoResponse == <<"<absent>">>
NoneResponse == <<"<None>">>

\* the user_id argument of process_query (current_user.username)
UserId == "user-1"

\* an initial state that carries an identifier of its own
InitialStateOwnId(q, sid) ==
    [query |-> q, user_id |-> UserId,
     session_id |-> IF sid = "session-1" THEN "session-2" ELSE "session-1",
     intent |-> Missing, confidence |-> Missing, next_node |-> Absent,
     response |-> NoResponse, processing_node |-> Absent,
     context_used |-> <<>>, error |-> Absent, current_node |-> Absent]

\* one state dict that every call of process_query uses
StateSlotShared(t) == 1

\* the dict that call t of process_query builds as its initial_state and
\* hands to graph.ainvoke
StateSlot(t) == t

\* the initial_state dict of process_query (keys not yet set are Absent)
InitialState(q, sid) ==
    [query |-> q, user_id |-> UserId, session_id |-> sid,
     intent |-> Missing, confidence |-> Missing, next_node |-> Absent,
     response |-> NoResponse, processing_node |-> Absent,
     context_used |-> <<>>, error |-> Absent, current_node |-> Absent]

\* ------------------------------------------------------------ router node

ConfidenceThreshold == 50

\* the comparison confidence >= 0.5
AboveThresholdLoose(c) == c.n >= ConfidenceThreshold

\* the comparison confidence > 0.5
AboveThreshold(c) == c.n > ConfidenceThreshold

\* the try body of RouterNode.process after analyze_intent returned v;
\* sf is the log call that fails (0: none, 2: log_intent_analysis, 3: log_node_routing)
RouterDecide(st, v, sf) ==
    IF ~v.isDict THEN Raise("AttributeError")
    ELSE IF sf = 2 THEN Raise("SinkError")
    ELSE LET raw == Get(v.intent, Str(FUTURE))
             confidence == Get(v.confidence, Num(0))
         IN  IF raw.t # "str" THEN Raise("AttributeError")
             ELSE LET intent == Upper(raw.s)
                  IN  IF intent = TNEA /\ confidence.t # "num" THEN Raise("TypeError")
                      ELSE IF sf = 3 THEN Raise("SinkError")
                      ELSE Ret([st EXCEPT
                                 !.intent = Str(intent),
                                 !.confidence = confidence,
                                 !.next_node = IF intent = TNEA /\ AboveThreshold(confidence)
                                               THEN "TNEANode" ELSE "FutureNode",
                                 !.current_node = "RouterNode"])

\* the except clause of RouterNode.process; ef: its log_error call fails
RouterExcept(st, e, ef) ==
    IF ~ExceptException(e) THEN Raise(e)
    ELSE IF ef THEN Raise("SinkError")
    ELSE Ret([st EXCEPT !.intent = Str(ERROR), !.confidence = Num(0),
                        !.next_node = "FutureNode", !.error = e,
                        !.current_node = "RouterNode"])

\* RouterNode.process: the outcome of analyze_intent is a
RouterNodeProcess(st, a, sf, ef) ==
    LET body == IF sf = 1 THEN Raise("SinkError")
                ELSE IF a.tag = "exc" THEN a
                ELSE RouterDecide(st, a.val, sf)
    IN  IF body.tag = "exc" THEN RouterExcept(st, body.exc, ef) ELSE body

\* MynaAgentGraph._route_decision
route_decision(st) == IF st.next_node = "TNEANode" THEN "tnea" ELSE "future"

\* ------------------------------------------------------- context retriever

\* top_k of the search issued by get_context_for_query
TopK == 5

\* the default max_context_length, which TNEANode.process uses
DefaultMaxContextLength == 2000

\* len of "No specific documents found in the knowledge base. This may
\* indicate the index needs to be populated with TNEA data."
NoDocumentsLen == 116

\* len of "No relevant context extracted from documents."
NoContextLen == 45

\* len of a formatted block whose college_name, text and cutoff_info are
\* empty: "Document i (relevance: 0.000):\nCollege: \n\nCutoff Info: \n\n"
BlockOverhead == 57

\* a search match: meta is "none" when match.metadata is None, payload is
\* len(college_name) + len(text) + len(cutoff_info)
Match(p) == [meta |-> "ok", payload |-> p]
MatchNoMeta == [meta |-> "none", payload |-> 0]

\* the pieces a context string is made of, each with its length
Block(i, n) == [kind |-> "block", idx |-> i, len |-> n]
NoDocuments == [kind |-> "no_documents", idx |-> 0, len |-> NoDocumentsLen]
NoContext == [kind |-> "no_context", idx |-> 0, len |-> NoContextLen]

RECURSIVE SumLen(_)
\* len() of a string given as its pieces
SumLen(parts) ==
    IF parts = <<>> THEN 0 ELSE Head(parts).len + SumLen(Tail(parts))

\* the f-string of get_context_for_query, for results[i]
context_piece(i, result) == Block(i, BlockOverhead + result.payload)

\* a search that answers a failure with no matches instead of raising
search_similar_swallow(search) ==
    IF ~search.indexOk \/ search.queryFails THEN Ret(<<>>) ELSE Ret(search.matches)

\* PineconeService.search_similar; the search is the index state and the
\* outcome of index.query
search_similar(search) ==
    IF ~search.indexOk THEN Raise("PineconeError")
    ELSE IF search.queryFails THEN Raise("PineconeError")
    ELSE Ret(search.matches)

\* the budget test with >= in place of >
ExceedsBudgetOffByOne(current_length, piece_len, max_context_length) ==
    current_length + piece_len >= max_context_length

\* the test `current_length + len(context_piece) > max_context_length`
ExceedsBudget(current_length, piece_len, max_context_length) ==
    current_length + piece_len > max_context_length

RECURSIVE ContextLoop(_, _, _, _, _)
\* the for loop of get_context_for_query, from results[i] on
ContextLoop(results, i, context_parts, current_length, max_context_length) ==
    IF i > Len(results) THEN Ret(context_parts)
    ELSE IF results[i].meta = "none" THEN Raise("AttributeError")
    ELSE LET piece == context_piece(i, results[i])
         IN  IF ExceedsBudget(current_length, piece.len, max_context_length)
             THEN Ret(context_parts)
             ELSE ContextLoop(results, i + 1, Append(context_parts, piece),
                              current_length + piece.len, max_context_length)

\* the empty string
EmptyContext == << >>

\* the context returned when the search found nothing
NoDocumentsContext == <<NoDocuments>>

\* PineconeService.get_context_for_query: Ret(context) or Raise(e); its
\* except clause re-raises
get_context_for_query(search, max_context_length) ==
    LET results == search_similar(search)
    IN  IF results.tag = "exc" THEN results
        ELSE IF results.val = <<>> THEN Ret(NoDocumentsContext)
        ELSE LET loop == ContextLoop(results.val, 1, <<>>, 0, max_context_length)
             IN  IF loop.tag = "exc" THEN loop
                 ELSE IF loop.val # <<>> THEN loop
                 ELSE Ret(<<NoContext>>)

\* ------------------------------------------------------- domain responder

\* len of text-embedding-3-large vectors
EmbeddingDim == 3072

\* len of the dummy embedding
DummyEmbeddingDim == 1536

\* TNEANode._get_query_embedding: the length of the vector it returns; emb is
\* the outcome of get_embedding ("ok", "empty" or "raise")
get_query_embedding(emb) ==
    IF emb = "ok" THEN EmbeddingDim ELSE DummyEmbeddingDim

\* OpenAIService.generate_response as TNEANode.process calls it, that is
\* with session_id "default": one chat completion, whose outcome is gen
generate_response(gen) ==
    CASE gen = "raise" -> <<"I'm sorry, but I encountered an error while processing your request: ", "APIError">>
      [] gen = "null" -> NoneResponse
      [] OTHER -> <<"generated">>

TneaApology == <<"I apologize, but I'm experiencing some technical difficulties">>

\* the name of the other handler
TneaNameWrong == "FutureNode"

\* the processing_node the handlers write
TneaName == "TNEANode"

FutureName == "FutureNode"

\* the try body of TNEANode.process; sf: the log call that fails
\* (0: none, 1: log_rag_retrieval, 2: log_gpt_response)
TneaTry(st, search, gen, sf) ==
    LET context == get_context_for_query(search, DefaultMaxContextLength)
    IN  IF context.tag = "exc" THEN context
        ELSE IF sf = 1 THEN Raise("SinkError")
        ELSE LET response == generate_response(gen)
             IN  IF response = NoneResponse THEN Raise("TypeError")
                 ELSE IF sf = 2 THEN Raise("SinkError")
                 ELSE Ret([st EXCEPT !.response = response,
                                     !.context_used = context.val,
                                     !.processing_node = TneaName,
                                     !.current_node = TneaName])

\* an except clause that also resets the verdict, as the router's does
TneaExceptResetsVerdict(st, e, ef) ==
    IF ~ExceptException(e) THEN Raise(e)
    ELSE IF ef THEN Raise("SinkError")
    ELSE Ret([st EXCEPT !.response = TneaApology, !.processing_node = TneaName,
                        !.intent = Str(ERROR), !.confidence = Num(0),
                        !.error = e, !.current_node = TneaName])

\* the except clause of TNEANode.process
TneaExcept(st, e, ef) ==
    IF ~ExceptException(e) THEN Raise(e)
    ELSE IF ef THEN Raise("SinkError")
    ELSE Ret([st EXCEPT !.response = TneaApology, !.processing_node = TneaName,
                        !.error = e, !.current_node = TneaName])

\* TNEANode.process
TneaNodeProcess(st, search, gen, sf, ef) ==
    LET body == TneaTry(st, search, gen, sf)
    IN  IF body.tag = "exc" THEN TneaExcept(st, body.exc, ef) ELSE body

\* text generation dispatched before the vector search has returned
TneaCallsSpeculative(search, sf) ==
    <<"embedding", "generation">>
    \o (IF search.indexOk THEN <<"vector_search">> ELSE <<>>)

\* a failed index query issued a second time
TneaCallsRetry(search, sf) ==
    LET context == get_context_for_query(search, DefaultMaxContextLength)
    IN  <<"embedding">>
        \o (IF search.indexOk THEN <<"vector_search">> ELSE <<>>)
        \o (IF search.indexOk /\ search.queryFails THEN <<"vector_search">> ELSE <<>>)
        \o (IF context.tag = "ret" /\ sf # 1 THEN <<"generation">> ELSE <<>>)

\* the external calls TNEANode.process makes, in order
TneaCalls(search, sf) ==
    LET context == get_context_for_query(search, DefaultMaxContextLength)
    IN  <<"embedding">>
        \o (IF search.indexOk THEN <<"vector_search">> ELSE <<>>)
        \o (IF context.tag = "ret" /\ sf # 1 THEN <<"generation">> ELSE <<>>)

\* ---------------------------------------------------- conversation threads

\* OpenAIService.__init__: self.active_threads = {}
NoThreads == [s \in {} |-> 0]

\* the thread handle of a call that used no thread
NoThread == 0

\* the default of generate_response's session_id parameter
DefaultSessionId == "default"

\* generate_response: the test that sends a call to the Assistant API
UsesAssistant(sid) == sid # "" /\ sid # DefaultSessionId

\* OpenAIService.get_or_create_thread on an instance whose active_threads is
\* table; newId is the id client.beta.threads.create would return, fails
\* whether that call raises
get_or_create_thread(table, sid, newId, fails) ==
    IF sid \in DOMAIN table
    THEN [table |-> table, out |-> Ret(table[sid]), created |-> FALSE]
    ELSE IF fails
    THEN [table |-> table, out |-> Raise("APIError"), created |-> FALSE]
    ELSE [table |-> [x \in DOMAIN table \cup {sid} |-> IF x = sid THEN newId ELSE table[x]],
          out |-> Ret(newId), created |-> TRUE]

\* OpenAIService.cleanup_thread on an instance whose active_threads is
\* table: the new table and the thread deleted on the server (NoThread:
\* none); deleteFails: client.beta.threads.delete raises
cleanup_thread(table, sid, deleteFails) ==
    IF sid \notin DOMAIN table
    THEN [table |-> table, deleted |-> NoThread]
    ELSE [table |-> [x \in DOMAIN table \ {sid} |-> table[x]],
          deleted |-> IF deleteFails THEN NoThread ELSE table[sid]]

\* get_openai_service(): every call constructs an OpenAIService
get_openai_service == NoThreads

\* the thread part of generate_response(.., session_id = passed) on an
\* instance: the Assistant API path asks for the session's thread, and a
\* failure there ends in a chat completion that uses no thread
generate_response_thread(table, passed, newId, fails) ==
    IF UsesAssistant(passed)
    THEN LET got == get_or_create_thread(table, passed, newId, fails)
         IN  [table |-> got.table,
              thread |-> IF got.out.tag = "ret" THEN got.out.val ELSE NoThread,
              created |-> got.created]
    ELSE [table |-> table, thread |-> NoThread, created |-> FALSE]

\* ------------------------------------------------------- assistant path

\* the instructions of the assistant that get_or_create_tnea_assistant
\* creates, by paragraph
AssistantInstructions ==
    <<"You are a TNEA (Tamil Nadu Engineering Admissions) expert and Query Planner.",
      "Default year = 2024 unless user explicitly asks for another year.",
      "Your job is to analyze user queries about Tamil Nadu Engineering Admissions and provide comprehensive guidance based on the provided context.",
      "### Analysis Rules 1-6",
      "Present information in crisp, well-organized bullet points with clear categories and practical advice.">>

\* the system_prompt of generate_response_fallback, by paragraph
FallbackSystemPrompt ==
    <<"You are a TNEA (Tamil Nadu Engineering Admissions) expert and Query Planner.",
      "Default year = 2024 unless user explicitly asks for another year.",
      "Provide comprehensive guidance based on the provided context with clear categorization and practical advice.">>

\* f"Context: {context}\n\nUser Query: {query}" if context else query
UserMessage(context, q) ==
    IF context # <<>> THEN <<"Context: ", context, "User Query: ", q>> ELSE <<q>>

\* the messages _chat_completion sends: one system and one user message
ChatMessages(system_prompt, user_message) ==
    [system_prompt |-> system_prompt, user_message |-> user_message]

\* the text a chat completion of the fallback answers
FallbackText == <<"fallback completion text">>

\* the text of the assistant's latest message in the thread
AssistantText == <<"assistant message text">>

\* generate_response_fallback with its chat completion's outcome fb
generate_response_fallback(q, context, fb) ==
    CASE fb = "raise" ->
           IF ExceptException("APIError")
           THEN Ret(<<"I'm sorry, but I encountered an error while processing your request: ",
                      "APIError">>)
           ELSE Raise("APIError")
      [] fb = "null" -> Ret(NoneResponse)
      [] OTHER -> Ret(FallbackText)

\* a loop that goes on only while the run is queued
StillRunningQueuedOnly(status) == status = "queued"

\* the condition of the polling loop
StillRunning(status) == status \in {"queued", "in_progress"}

\* run.status == 'completed'
RunCompleted(status) == status = "completed"

\* ----------------------------------------------------- fallback responder

\* _generate_future_response: the medical group
future_medical_words ==
    << <<"m", "e", "d", "i", "c", "a", "l">>,
       <<"m", "b", "b", "s">>,
       <<"n", "e", "e", "t">> >>

\* _generate_future_response: the arts/commerce group
future_arts_words ==
    << <<"a", "r", "t", "s">>,
       <<"c", "o", "m", "m", "e", "r", "c", "e">>,
       <<"b", "a">>,
       <<"b", "c", "o", "m">> >>

\* _generate_future_response: the career/placement group
future_career_words ==
    << <<"j", "o", "b">>,
       <<"c", "a", "r", "e", "e", "r">>,
       <<"p", "l", "a", "c", "e", "m", "e", "n", "t">> >>

\* the groups tried in the order arts/commerce, medical, career/placement
generate_future_response_arts_first(query) ==
    LET query_lower == Lower(query)
    IN  IF AnyIn(future_arts_words, query_lower) THEN <<"base_response", "arts/commerce note">>
        ELSE IF AnyIn(future_medical_words, query_lower) THEN <<"base_response", "medical note">>
        ELSE IF AnyIn(future_career_words, query_lower) THEN <<"base_response", "career note">>
        ELSE <<"base_response">>

\* FutureNode._generate_future_response
generate_future_response(query) ==
    LET query_lower == Lower(query)
    IN  IF AnyIn(future_medical_words, query_lower) THEN <<"base_response", "medical note">>
        ELSE IF AnyIn(future_arts_words, query_lower) THEN <<"base_response", "arts/commerce note">>
        ELSE IF AnyIn(future_career_words, query_lower) THEN <<"base_response", "career note">>
        ELSE <<"base_response">>

FutureApology == <<"I apologize for the technical difficulty. Please try again later.">>

\* FutureNode.process; sf = 1: log_gpt_response fails, ef: log_error fails
FutureNodeProcess(st, sf, ef) ==
    IF sf = 0
    THEN Ret([st EXCEPT !.response = generate_future_response(st.query),
                        !.processing_node = FutureName,
                        !.current_node = FutureName])
    ELSE IF ~ExceptException("SinkError") THEN Raise("SinkError")
    ELSE IF ef THEN Raise("SinkError")
    ELSE Ret([st EXCEPT !.response = FutureApology, !.processing_node = FutureName,
                        !.error = "SinkError", !.current_node = FutureName])

\* ------------------------------------------------------------ input sets

Queries == {QCutoff, QNeet, QDoctor, QMark, QHello, QArts, QCommerce, QPlacement}

\* uuid.uuid4()
SessionIds == {"session-1", "session-2"}

\* QueryRequest.session_id: Optional[str], None when the caller sent none
RequestSessionIds == {Absent, "caller-session"}

ReplyIntents == {Str(TNEA), Str(Lower(TNEA)), Str(FUTURE), NoneV, Missing}

ReplyConfidences ==
    {Num(40), Num(50), Num(51), Num(90), Num(150), NoneV, Missing,
     Str(<<"h", "i", "g", "h">>)}

Replies ==
    {ReplyRaise, ReplyNull, ReplyJson(NonDict)}
    \cup {ReplyText(x) : x \in {TextTnea, TextPlain, TextEmpty}}
    \cup {ReplyJson(Dict(i, c, <<"model reasoning">>)) :
              i \in ReplyIntents, c \in ReplyConfidences}

\* the longest match list a vector search returns in the graph runs
MaxPipelineMatches == 2

\* payloads giving blocks of 400 and of 2001 characters
PipelinePayloads == {343, 1944}

SeqsUpTo(S, n) == UNION {[1..k -> S] : k \in 0..n}

Search(ok, fails, ms) == [indexOk |-> ok, queryFails |-> fails, matches |-> ms]

PipelineSearches ==
    {Search(FALSE, FALSE, <<>>), Search(TRUE, TRUE, <<>>),
     Search(TRUE, FALSE, <<MatchNoMeta>>)}
    \cup {Search(TRUE, FALSE, ms) :
              ms \in SeqsUpTo({Match(p) : p \in PipelinePayloads}, MaxPipelineMatches)}

\* the most OpenAIService instances constructed in the thread runs
MaxServices == 2

\* the most threads created in the thread runs
MaxThreads == 3

\* the statuses runs.create and runs.retrieve answer
RunStatuses ==
    {"queued", "in_progress", "completed", "failed", "cancelled", "expired",
     "requires_action"}

\* the steps of the stateful path, up to runs.create, that can raise
SetupSteps == {"assistant", "thread", "message", "run_create"}

\* the contexts passed to generate_response_with_assistant
AssistantContexts == {<<>>, <<"retrieved context">>}

\* polls counted beyond this are counted as this
MaxPolls == 3

\* the requests in flight on the event loop
Tasks == {1, 2}

\* a request's query with the replies to its external calls
TaskInput(q, r, s, g) == [query |-> q, reply |-> r, search |-> s, gen |-> g]

TaskInputs ==
    {TaskInput(QCutoff, ReplyJson(Dict(Str(TNEA), Num(90), <<"model reasoning">>)), s, "ok") :
         s \in {Search(FALSE, FALSE, <<>>), Search(TRUE, FALSE, <<Match(343)>>)}}
    \cup {TaskInput(QHello, ReplyText(TextPlain), Search(FALSE, FALSE, <<>>), "ok"),
          TaskInput(QNeet, ReplyRaise, Search(FALSE, FALSE, <<>>), "ok")}

\* the inputs of get_context_for_query called on its own
ContextPayloads == {0, 343, 1944}

ContextBudgets == {0, 44, 45, 100, 116, 400, 1000, 2000}

ContextSearches ==
    {Search(FALSE, FALSE, <<>>), Search(TRUE, TRUE, <<>>)}
    \cup {Search(TRUE, FALSE, ms) :
              ms \in SeqsUpTo({Match(p) : p \in ContextPayloads} \cup {MatchNoMeta}, TopK)}

\* ------------------------------------------------------------------ state

VARIABLES
    pc,          \* where process_query is
    query,       \* the query argument
    session_id,  \* the local session_id of process_query
    state,       \* the graph state dict
    reply,       \* what the chat completion of analyze_intent answered
    verdict,     \* what analyze_intent returned to the router
    routed,      \* the edge _route_decision chose
    ran,         \* the nodes that ran, in order
    calls,       \* the external calls made, in order
    embedding,   \* len of the vector _get_query_embedding returned
    search,      \* the vector search TNEANode.process met
    retrieved,   \* what get_context_for_query returned to TNEANode.process
    genContext,  \* the context TNEANode.process passed to generate_response
    pending,     \* the exception that left graph.ainvoke or the try body
    result,      \* the dict process_query returned
    builtFrom,   \* which return statement built it
    returned,    \* how many times process_query returned
    sinkFailed,  \* a call of logging_service raised in this run
    generation,  \* the outcome of the chat completion of generate_response
    logged,      \* the session ids the calls of logging_service received
    request_session_id,  \* the session_id field of the QueryRequest
    ctxSearch,   \* get_context_for_query on its own: the search
    ctxMax,      \* ... its max_context_length
    ctxOut,      \* ... its outcome
    services,    \* active_threads of each OpenAIService constructed, in order
    threadsCreated,  \* how many threads client.beta.threads.create made
    serverThreads,   \* the threads that exist on the server
    domainCalls, \* per Domain Responder call: its session, thread, created
    apc,         \* where generate_response_with_assistant is
    asstContext, \* its context argument
    runStatus,   \* run.status
    polls,       \* how many times the loop body ran
    asstFailure, \* the step of the stateful path that raised
    completions, \* the messages of the chat completions made
    asstOut,     \* what the call returned
    tpc,         \* per in-flight request: where its process_query is
    tinput,      \* ... its query and the replies to its external calls
    tsid,        \* ... its local session_id
    tstates,     \* the graph state dicts, by slot
    tresult,     \* ... the dict its process_query returned
    loopTask,    \* the request whose blocking call holds the event loop (0: none)
    hung         \* the request whose classification call never returns (0: none)

vars == <<pc, query, session_id, state, reply, verdict, routed, ran, calls, embedding, search,
          retrieved, genContext, pending, result, builtFrom, returned, sinkFailed,
          generation, logged, request_session_id,
          ctxSearch, ctxMax, ctxOut, services, threadsCreated, serverThreads, domainCalls,
          apc, asstContext, runStatus, polls, asstFailure, completions, asstOut,
          tpc, tinput, tsid, tstates, tresult, loopTask, hung>>

graphVars == <<pc, query, session_id, state, reply, verdict, routed, ran, calls, embedding, search,
               retrieved, genContext, pending, result, builtFrom, returned, sinkFailed,
               generation, logged, request_session_id>>

ctxVars == <<ctxSearch, ctxMax, ctxOut>>

threadVars == <<services, threadsCreated, serverThreads, domainCalls>>

asstVars == <<apc, asstContext, runStatus, polls, asstFailure, completions, asstOut>>

loopVars == <<tpc, tinput, tsid, tstates, tresult, loopTask, hung>>

otherThanLoopVars == <<graphVars, ctxVars, threadVars, asstVars>>

NoReply == [kind |-> "none", text |-> <<>>, value |-> NonDict]
NoVerdict == [tag |-> "none", val |-> NonDict, exc |-> "none"]
NoSearch == Search(FALSE, FALSE, <<>>)
NotRun == [tag |-> "none", val |-> <<>>, exc |-> "none"]

NoResult ==
    [response |-> NoResponse, session_id |-> Absent, processing_node |-> Absent,
     intent |-> Missing, confidence |-> Missing, success |-> FALSE, error |-> Absent]

GraphIdle(p) ==
    /\ pc = p
    /\ session_id = Absent
    /\ state = InitialState(<<>>, Absent)
    /\ reply = NoReply
    /\ verdict = NoVerdict
    /\ routed = "none"
    /\ ran = <<>>
    /\ calls = <<>>
    /\ embedding = 0
    /\ search = NoSearch
    /\ retrieved = NotRun
    /\ genContext = <<>>
    /\ pending = "none"
    /\ result = NoResult
    /\ builtFrom = "none"
    /\ returned = 0
    /\ sinkFailed = FALSE
    /\ generation = "none"
    /\ logged = {}

CtxIdle ==
    /\ ctxSearch = NoSearch
    /\ ctxMax = 0
    /\ ctxOut = NotRun

ThreadIdle ==
    /\ services = <<>>
    /\ threadsCreated = 0
    /\ serverThreads = {}
    /\ domainCalls = <<>>

AsstIdle(p) ==
    /\ apc = p
    /\ asstContext = <<>>
    /\ runStatus = "none"
    /\ polls = 0
    /\ asstFailure = "none"
    /\ completions = <<>>
    /\ asstOut = NotRun

LoopIdle ==
    /\ tpc = <<>>
    /\ tinput = <<>>
    /\ tsid = <<>>
    /\ tstates = <<>>
    /\ tresult = <<>>
    /\ loopTask = 0
    /\ hung = 0

\* a caller is about to call process_query(query, ...)
Init ==
    /\ query \in Queries
    /\ request_session_id \in RequestSessionIds
    /\ GraphIdle("start")
    /\ CtxIdle
    /\ ThreadIdle
    /\ AsstIdle("idle")
    /\ LoopIdle

\* a caller is about to call get_context_for_query(.., max_context_length)
InitContext ==
    /\ query = <<>>
    /\ request_session_id = Absent
    /\ GraphIdle("context")
    /\ ctxSearch \in ContextSearches
    /\ ctxMax \in ContextBudgets
    /\ ctxOut = NotRun
    /\ ThreadIdle
    /\ AsstIdle("idle")
    /\ LoopIdle

\* a caller is about to call generate_response_with_assistant(query,
\* context, "session-1") on a new OpenAIService
InitAssistant ==
    /\ query = QCutoff
    /\ request_session_id = Absent
    /\ GraphIdle("assistant")
    /\ CtxIdle
    /\ services = <<NoThreads>>
    /\ threadsCreated = 0
    /\ serverThreads = {}
    /\ domainCalls = <<>>
    /\ AsstIdle("begin")
    /\ LoopIdle

\* two requests have arrived and their process_query coroutines are about
\* to start on the event loop
InitLoop ==
    /\ query = <<>>
    /\ request_session_id = Absent
    /\ GraphIdle("loop")
    /\ CtxIdle
    /\ ThreadIdle
    /\ AsstIdle("idle")
    /\ tpc = [t \in Tasks |-> "start"]
    /\ tinput \in [Tasks -> TaskInputs]
    /\ tsid = [t \in Tasks |-> Absent]
    /\ tstates = [t \in Tasks |-> InitialState(<<>>, Absent)]
    /\ tresult = [t \in Tasks |-> NoResult]
    /\ loopTask = 0
    /\ hung \in {0} \cup Tasks

\* a process that has constructed no OpenAIService yet
InitThreads ==
    /\ query = <<>>
    /\ request_session_id = Absent
    /\ GraphIdle("threads")
    /\ CtxIdle
    /\ ThreadIdle
    /\ AsstIdle("idle")
    /\ LoopIdle

\* ---------------------------------------------------------------- actions

\* an exception of the sink is part of outcome out
SinkRaisedIn(out) ==
    \/ out.tag = "exc" /\ out.exc = "SinkError"
    \/ out.tag = "ret" /\ out.val.error = "SinkError"

\* process_query up to graph.ainvoke: session id, log_session_start, initial_state;
\* process_query_endpoint passes query, user_id and context, so the request's
\* session_id does not reach it
Start ==
    /\ pc = "start"
    /\ \E sid \in SessionIds, sinkFails \in BOOLEAN :
        /\ session_id' = sid
        /\ IF sinkFails
           THEN /\ pending' = "SinkError"
                /\ sinkFailed' = TRUE
                /\ pc' = "except"
                /\ UNCHANGED state
           ELSE /\ state' = InitialState(query, sid)
                /\ pc' = "router"
                /\ UNCHANGED <<pending, sinkFailed>>
    /\ UNCHANGED <<query, reply, verdict, routed, ran, calls, embedding, search, retrieved, genContext,
                   result, builtFrom, returned>>
    /\ logged' = logged \cup {session_id'}
    /\ UNCHANGED <<generation, request_session_id>>
    /\ UNCHANGED ctxVars
    /\ UNCHANGED loopVars
    /\ UNCHANGED threadVars
    /\ UNCHANGED asstVars

\* the node "router": _router_wrapper re-raises what RouterNode.process raises
RouterStep ==
    /\ pc = "router"
    /\ \E r \in Replies, sf \in 0..3, ef \in BOOLEAN :
        LET a == analyze_intent(state.query, r)
            out == RouterNodeProcess(state, a, sf, ef)
        IN  /\ reply' = IF sf = 1 THEN reply ELSE r
            /\ verdict' = IF sf = 1 THEN verdict ELSE a
            /\ calls' = IF sf = 1 THEN calls ELSE Append(calls, "classification")
            /\ sinkFailed' = (sinkFailed \/ SinkRaisedIn(out))
            /\ IF out.tag = "ret"
               THEN /\ state' = out.val
                    /\ pc' = "route"
                    /\ UNCHANGED pending
               ELSE /\ pending' = out.exc
                    /\ pc' = "except"
                    /\ UNCHANGED state
    /\ ran' = Append(ran, "router")
    /\ UNCHANGED <<query, session_id, routed, embedding, search, retrieved, genContext,
                   result, builtFrom, returned>>
    /\ logged' = logged \cup {state.session_id}
    /\ UNCHANGED <<generation, request_session_id>>
    /\ UNCHANGED ctxVars
    /\ UNCHANGED loopVars
    /\ UNCHANGED threadVars
    /\ UNCHANGED asstVars

\* the conditional edge after "router"
RouteDecision ==
    /\ pc = "route"
    /\ routed' = route_decision(state)
    /\ pc' = route_decision(state)
    /\ UNCHANGED <<query, session_id, state, reply, verdict, ran, calls, embedding, search,
                   retrieved, genContext, pending, result, builtFrom, returned, sinkFailed>>
    /\ UNCHANGED <<generation, logged, request_session_id>>
    /\ UNCHANGED ctxVars
    /\ UNCHANGED loopVars
    /\ UNCHANGED threadVars
    /\ UNCHANGED asstVars

\* the node "tnea"
TneaStep ==
    /\ pc = "tnea"
    /\ \E emb \in {"ok", "empty", "raise"}, s \in PipelineSearches,
          gen \in {"ok", "null", "raise"}, sf \in 0..2, ef \in BOOLEAN :
        LET out == TneaNodeProcess(state, s, gen, sf, ef)
            context == get_context_for_query(s, DefaultMaxContextLength)
        IN  /\ embedding' = get_query_embedding(emb)
            /\ search' = s
            /\ retrieved' = context
            /\ calls' = calls \o TneaCalls(s, sf)
            /\ genContext' = IF context.tag = "ret" /\ sf # 1 THEN context.val ELSE <<>>
            /\ generation' = IF context.tag = "ret" /\ sf # 1 THEN gen ELSE "none"
            /\ sinkFailed' = (sinkFailed \/ SinkRaisedIn(out))
            /\ IF out.tag = "ret"
               THEN /\ state' = out.val
                    /\ pc' = "finish"
                    /\ UNCHANGED pending
               ELSE /\ pending' = out.exc
                    /\ pc' = "except"
                    /\ UNCHANGED state
    /\ ran' = Append(ran, "tnea")
    /\ UNCHANGED <<query, session_id, reply, verdict, routed, result, builtFrom, returned>>
    /\ logged' = logged \cup {state.session_id}
    /\ UNCHANGED request_session_id
    /\ UNCHANGED ctxVars
    /\ UNCHANGED loopVars
    /\ UNCHANGED threadVars
    /\ UNCHANGED asstVars

\* the node "future"
FutureStep ==
    /\ pc = "future"
    /\ \E sf \in 0..1, ef \in BOOLEAN :
        LET out == FutureNodeProcess(state, sf, ef)
        IN  /\ sinkFailed' = (sinkFailed \/ SinkRaisedIn(out))
            /\ IF out.tag = "ret"
               THEN /\ state' = out.val
                    /\ pc' = "finish"
                    /\ UNCHANGED pending
               ELSE /\ pending' = out.exc
                    /\ pc' = "except"
                    /\ UNCHANGED state
    /\ ran' = Append(ran, "future")
    /\ UNCHANGED <<query, session_id, reply, verdict, routed, calls, embedding, search, retrieved, genContext,
                   result, builtFrom, returned>>
    /\ logged' = logged \cup {state.session_id}
    /\ UNCHANGED <<generation, request_session_id>>
    /\ UNCHANGED ctxVars
    /\ UNCHANGED loopVars
    /\ UNCHANGED threadVars
    /\ UNCHANGED asstVars

DefaultResponse == <<"I'm sorry, I couldn't process your request.">>

GenericApology ==
    <<"I'm sorry, but I encountered an error while processing your request. Please try again.">>

\* the dict process_query returns after graph.ainvoke returned final
StateResult(final, sid) ==
    [response |-> IF final.response = NoResponse THEN DefaultResponse ELSE final.response,
     session_id |-> sid,
     processing_node |-> IF final.processing_node = Absent THEN "unknown"
                         ELSE final.processing_node,
     intent |-> Get(final.intent, NoneV),
     confidence |-> Get(final.confidence, NoneV),
     success |-> TRUE,
     error |-> Absent]

\* an error dict whose response ends with the error's text
ErrorResultLeaky(e, sid) ==
    [response |-> GenericApology \o <<e>>, session_id |-> sid, processing_node |-> "error",
     intent |-> NoneV, confidence |-> Num(0), success |-> FALSE, error |-> e]

\* the dict process_query returns from its except clause
ErrorResult(e, sid) ==
    [response |-> GenericApology, session_id |-> sid, processing_node |-> "error",
     intent |-> NoneV, confidence |-> Num(0), success |-> FALSE, error |-> e]

\* process_query after graph.ainvoke returned: log_session_end, return
Finish ==
    /\ pc = "finish"
    /\ \E sinkFails \in BOOLEAN :
        IF sinkFails
        THEN /\ pending' = "SinkError"
             /\ sinkFailed' = TRUE
             /\ pc' = "except"
             /\ UNCHANGED <<result, builtFrom, returned>>
        ELSE /\ result' = StateResult(state, session_id)
             /\ builtFrom' = "state"
             /\ returned' = returned + 1
             /\ pc' = "done"
             /\ UNCHANGED <<pending, sinkFailed>>
    /\ UNCHANGED <<query, session_id, state, reply, verdict, routed, ran, calls, embedding, search,
                   retrieved, genContext>>
    /\ logged' = logged \cup {session_id}
    /\ UNCHANGED <<generation, request_session_id>>
    /\ UNCHANGED ctxVars
    /\ UNCHANGED loopVars
    /\ UNCHANGED threadVars
    /\ UNCHANGED asstVars

\* the except clause of process_query: log_error, return
TopExcept ==
    /\ pc = "except"
    /\ \E sinkFails \in BOOLEAN :
        IF ~ExceptException(pending)
        THEN /\ pc' = "raised"
             /\ UNCHANGED <<result, builtFrom, returned, sinkFailed>>
        ELSE IF sinkFails
        THEN /\ pc' = "raised"
             /\ sinkFailed' = TRUE
             /\ UNCHANGED <<result, builtFrom, returned>>
        ELSE /\ result' = ErrorResult(pending, session_id)
             /\ builtFrom' = "except"
             /\ returned' = returned + 1
             /\ pc' = "done"
             /\ UNCHANGED sinkFailed
    /\ UNCHANGED <<query, session_id, state, reply, verdict, routed, ran, calls, embedding, search,
                   retrieved, genContext, pending>>
    /\ logged' = IF ExceptException(pending) THEN logged \cup {session_id} ELSE logged
    /\ UNCHANGED <<generation, request_session_id>>
    /\ UNCHANGED ctxVars
    /\ UNCHANGED loopVars
    /\ UNCHANGED threadVars
    /\ UNCHANGED asstVars

\* one call of get_context_for_query(.., max_context_length)
GetContext ==
    /\ pc = "context"
    /\ ctxOut' = get_context_for_query(ctxSearch, ctxMax)
    /\ pc' = "context_done"
    /\ UNCHANGED <<query, session_id, state, reply, verdict, routed, ran, calls, embedding, search,
                   retrieved, genContext, pending, result, builtFrom, returned, sinkFailed>>
    /\ UNCHANGED <<generation, logged, request_session_id>>
    /\ UNCHANGED <<ctxSearch, ctxMax>>
    /\ UNCHANGED loopVars
    /\ UNCHANGED threadVars
    /\ UNCHANGED asstVars

\* the text generation of one Domain Responder call for a query of session
\* sid: TNEANode.process takes a service from get_openai_service() and
\* calls generate_response(query=, context=, system_prompt=)
DomainResponderGenerate ==
    /\ pc = "threads"
    /\ Len(services) < MaxServices
    /\ \E sid \in SessionIds, fails \in BOOLEAN :
        LET got == generate_response_thread(get_openai_service, DefaultSessionId,
                                            threadsCreated + 1, fails)
        IN  /\ services' = Append(services, got.table)
            /\ threadsCreated' = threadsCreated + (IF got.created THEN 1 ELSE 0)
            /\ serverThreads' = IF got.created THEN serverThreads \cup {threadsCreated + 1}
                                ELSE serverThreads
            /\ domainCalls' = Append(domainCalls,
                   [session_id |-> sid, thread |-> got.thread, created |-> got.created])
    /\ UNCHANGED graphVars
    /\ UNCHANGED ctxVars
    /\ UNCHANGED loopVars
    /\ UNCHANGED asstVars

\* some other caller constructs an OpenAIService of its own
ConstructService ==
    /\ pc = "threads"
    /\ Len(services) < MaxServices
    /\ services' = Append(services, get_openai_service)
    /\ UNCHANGED <<threadsCreated, serverThreads, domainCalls>>
    /\ UNCHANGED graphVars
    /\ UNCHANGED ctxVars
    /\ UNCHANGED loopVars
    /\ UNCHANGED asstVars

\* generate_response(.., session_id = sid) on an instance constructed before
ServiceGenerate ==
    /\ pc = "threads"
    /\ \E k \in 1..Len(services), sid \in SessionIds \cup {DefaultSessionId}, fails \in BOOLEAN :
        LET got == generate_response_thread(services[k], sid, threadsCreated + 1, fails)
        IN  /\ got.created => threadsCreated < MaxThreads
            /\ services' = [services EXCEPT ![k] = got.table]
            /\ threadsCreated' = threadsCreated + (IF got.created THEN 1 ELSE 0)
            /\ serverThreads' = IF got.created THEN serverThreads \cup {threadsCreated + 1}
                                ELSE serverThreads
    /\ UNCHANGED domainCalls
    /\ UNCHANGED graphVars
    /\ UNCHANGED ctxVars
    /\ UNCHANGED loopVars
    /\ UNCHANGED asstVars

\* cleanup_thread(sid) on an instance constructed before
CleanupThread ==
    /\ pc = "threads"
    /\ \E k \in 1..Len(services), sid \in SessionIds, deleteFails \in BOOLEAN :
        LET done == cleanup_thread(services[k], sid, deleteFails)
        IN  /\ services' = [services EXCEPT ![k] = done.table]
            /\ serverThreads' = serverThreads \ {done.deleted}
    /\ UNCHANGED <<threadsCreated, domainCalls>>
    /\ UNCHANGED graphVars
    /\ UNCHANGED ctxVars
    /\ UNCHANGED loopVars
    /\ UNCHANGED asstVars

\* generate_response_with_assistant up to runs.create: assistant, thread,
\* user message, run; failAt is the step that raises
AssistantBegin ==
    /\ apc = "begin"
    /\ \E context \in AssistantContexts, failAt \in SetupSteps \cup {"none"},
          status \in RunStatuses :
        LET got == IF failAt = "assistant"
                   THEN [table |-> services[1], out |-> Raise("APIError"), created |-> FALSE]
                   ELSE get_or_create_thread(services[1], "session-1", threadsCreated + 1,
                                             failAt = "thread")
        IN  /\ asstContext' = context
            /\ services' = [services EXCEPT ![1] = got.table]
            /\ threadsCreated' = threadsCreated + (IF got.created THEN 1 ELSE 0)
            /\ serverThreads' = IF got.created THEN serverThreads \cup {threadsCreated + 1}
                                ELSE serverThreads
            /\ IF failAt = "none"
               THEN /\ runStatus' = status
                    /\ apc' = "loop"
                    /\ UNCHANGED asstFailure
               ELSE /\ asstFailure' = failAt
                    /\ apc' = "fallback"
                    /\ UNCHANGED runStatus
    /\ UNCHANGED <<polls, completions, asstOut, domainCalls>>
    /\ UNCHANGED graphVars
    /\ UNCHANGED ctxVars
    /\ UNCHANGED loopVars

\* one turn of the polling loop: time.sleep(1), runs.retrieve
AssistantPoll ==
    /\ apc = "loop"
    /\ StillRunning(runStatus)
    /\ \E retrieved_status \in RunStatuses \cup {"raise"} :
        IF retrieved_status = "raise"
        THEN /\ asstFailure' = "retrieve"
             /\ apc' = "fallback"
             /\ UNCHANGED runStatus
        ELSE /\ runStatus' = retrieved_status
             /\ UNCHANGED <<asstFailure, apc>>
    /\ polls' = IF polls < MaxPolls THEN polls + 1 ELSE polls
    /\ UNCHANGED <<asstContext, completions, asstOut>>
    /\ UNCHANGED graphVars
    /\ UNCHANGED ctxVars
    /\ UNCHANGED loopVars
    /\ UNCHANGED threadVars

\* after the loop: the latest message of a completed run, or an exception
AssistantAfterLoop ==
    /\ apc = "loop"
    /\ ~StillRunning(runStatus)
    /\ \E latest \in {"assistant", "user", "raise"} :
        IF ~RunCompleted(runStatus)
        THEN /\ asstFailure' = "status"
             /\ apc' = "fallback"
             /\ UNCHANGED asstOut
        ELSE IF latest = "assistant"
        THEN /\ asstOut' = Ret(AssistantText)
             /\ apc' = "returned"
             /\ UNCHANGED asstFailure
        ELSE /\ asstFailure' = IF latest = "user" THEN "role" ELSE "messages_list"
             /\ apc' = "fallback"
             /\ UNCHANGED asstOut
    /\ UNCHANGED <<asstContext, runStatus, polls, completions>>
    /\ UNCHANGED graphVars
    /\ UNCHANGED ctxVars
    /\ UNCHANGED loopVars
    /\ UNCHANGED threadVars

\* the except clause: generate_response_fallback(query, context)
AssistantFallback ==
    /\ apc = "fallback"
    /\ \E fb \in {"ok", "null", "raise"} :
        LET out == generate_response_fallback(query, asstContext, fb)
        IN  /\ completions' = Append(completions,
                   ChatMessages(FallbackSystemPrompt, UserMessage(asstContext, query)))
            /\ asstOut' = out
            /\ apc' = IF out.tag = "ret" THEN "returned" ELSE "raised"
    /\ UNCHANGED <<asstContext, runStatus, polls, asstFailure>>
    /\ UNCHANGED graphVars
    /\ UNCHANGED ctxVars
    /\ UNCHANGED loopVars
    /\ UNCHANGED threadVars

\* uuid.uuid4() in a process where the identifiers in used were generated
uuid4(used) == SessionIds \ used

\* process_query of request t up to the first suspension of graph.ainvoke
LoopStart(t) ==
    /\ tpc[t] = "start"
    /\ loopTask = 0
    /\ \E sid \in uuid4({tsid[u] : u \in Tasks}) :
        /\ tsid' = [tsid EXCEPT ![t] = sid]
        /\ tstates' = [tstates EXCEPT ![StateSlot(t)] = InitialState(tinput[t].query, sid)]
    /\ tpc' = [tpc EXCEPT ![t] = "router"]
    /\ UNCHANGED <<tinput, tresult, loopTask, hung>>
    /\ UNCHANGED otherThanLoopVars

\* the router node of request t reaches _chat_completion: the client call
\* is synchronous, so the coroutine keeps the event loop until it returns
LoopClassify(t) ==
    /\ tpc[t] = "router"
    /\ loopTask = 0
    /\ loopTask' = t
    /\ tpc' = [tpc EXCEPT ![t] = "classifying"]
    /\ UNCHANGED <<tinput, tsid, tstates, tresult, hung>>
    /\ UNCHANGED otherThanLoopVars

\* the classification call of request t returns; the router node finishes
\* and the conditional edge is taken
LoopClassified(t) ==
    /\ tpc[t] = "classifying"
    /\ hung # t
    /\ LET st == tstates[StateSlot(t)]
           out == RouterNodeProcess(st, analyze_intent(st.query, tinput[t].reply), 0, FALSE)
       IN  /\ tstates' = [tstates EXCEPT ![StateSlot(t)] = out.val]
           /\ tpc' = [tpc EXCEPT ![t] = route_decision(out.val)]
    /\ loopTask' = 0
    /\ UNCHANGED <<tinput, tsid, tresult, hung>>
    /\ UNCHANGED otherThanLoopVars

\* the handler node of request t runs, its external calls returning
LoopHandler(t) ==
    /\ tpc[t] \in {"tnea", "future"}
    /\ loopTask = 0
    /\ LET st == tstates[StateSlot(t)]
           out == IF tpc[t] = "tnea"
                  THEN TneaNodeProcess(st, tinput[t].search, tinput[t].gen, 0, FALSE)
                  ELSE FutureNodeProcess(st, 0, FALSE)
       IN  tstates' = [tstates EXCEPT ![StateSlot(t)] = out.val]
    /\ tpc' = [tpc EXCEPT ![t] = "finish"]
    /\ UNCHANGED <<tinput, tsid, tresult, loopTask, hung>>
    /\ UNCHANGED otherThanLoopVars

\* graph.ainvoke of request t returned: process_query returns its result
LoopFinish(t) ==
    /\ tpc[t] = "finish"
    /\ loopTask = 0
    /\ tresult' = [tresult EXCEPT ![t] = StateResult(tstates[StateSlot(t)], tsid[t])]
    /\ tpc' = [tpc EXCEPT ![t] = "done"]
    /\ UNCHANGED <<tinput, tsid, tstates, loopTask, hung>>
    /\ UNCHANGED otherThanLoopVars

\* the steps of request t
LoopTaskNext(t) ==
    \/ LoopStart(t)
    \/ LoopClassify(t)
    \/ LoopClassified(t)
    \/ LoopHandler(t)
    \/ LoopFinish(t)

Next ==
    \/ Start
    \/ RouterStep
    \/ RouteDecision
    \/ TneaStep
    \/ FutureStep
    \/ Finish
    \/ TopExcept

Spec == Init /\ [][Next]_vars

NextContext == GetContext

SpecContext == InitContext /\ [][NextContext]_vars

NextThreads ==
    \/ DomainResponderGenerate
    \/ ConstructService
    \/ ServiceGenerate
    \/ CleanupThread

SpecThreads == InitThreads /\ [][NextThreads]_vars

NextLoop ==
    \/ \E t \in Tasks : LoopStart(t)
    \/ \E t \in Tasks : LoopClassify(t)
    \/ \E t \in Tasks : LoopClassified(t)
    \/ \E t \in Tasks : LoopHandler(t)
    \/ \E t \in Tasks : LoopFinish(t)

SpecLoop == InitLoop /\ [][NextLoop]_vars

\* the event loop runs every coroutine that is ready
SpecLoopFair == SpecLoop /\ \A t \in Tasks : WF_vars(LoopTaskNext(t))

NextAssistant ==
    \/ AssistantBegin
    \/ AssistantPoll
    \/ AssistantAfterLoop
    \/ AssistantFallback

SpecAssistant == InitAssistant /\ [][NextAssistant]_vars

\* the call is one coroutine that runs on once started
SpecAssistantFair == SpecAssistant /\ WF_vars(NextAssistant)

\* ------------------------------------------------------------- properties

\* the verdict v that analyze_intent returned is DOMAIN (its intent is
\* "TNEA" up to letter case) with a confidence above 0.5
DomainAboveThreshold(v) ==
    /\ v.tag = "ret"
    /\ v.val.isDict
    /\ v.val.intent.t = "str"
    /\ Upper(v.val.intent.s) = TNEA
    /\ v.val.confidence.t = "num"
    /\ v.val.confidence.n > 50

\* C1: while the audit sink works, the edge taken after the router, and the
\* handler node that then runs, is the Domain Responder if and only if the
\* classifier's verdict is DOMAIN with confidence strictly above 0.5; every
\* other verdict (confidence exactly 0.5, DOMAIN at 0.4, OTHER, a verdict
\* the router cannot read) goes to the Fallback Responder.
C1_RouterDispatch ==
    (routed # "none" /\ ~sinkFailed) =>
        /\ routed = "tnea" <=> DomainAboveThreshold(verdict)
        /\ routed = "future" <=> ~DomainAboveThreshold(verdict)
        /\ state.next_node = (IF DomainAboveThreshold(verdict) THEN "TNEANode" ELSE "FutureNode")
        /\ Len(ran) >= 2 => ran[2] = routed

\* C1 witness: a DOMAIN verdict at exactly 0.5 was sent to the Fallback Responder
C1_Witness ==
    /\ ~sinkFailed
    /\ ran = <<"router", "future">>
    /\ reply = ReplyJson(Dict(Str(TNEA), Num(50), <<"model reasoning">>))
    /\ routed = "future"

\* C2: while the audit sink works, no failure of text generation, embedding
\* or vector search makes process_query raise; it is always at a step that
\* can be taken or has ended, runs at most the router and one handler, never
\* returns twice, and once it has returned there is exactly one result,
\* built by exactly one of its two return statements.
C2_OneResultNeverRaises ==
    /\ ~sinkFailed => pc # "raised"
    /\ returned <= 1
    /\ pc \notin {"done", "raised"} => (returned = 0 /\ result = NoResult /\ builtFrom = "none")
    /\ pc \in {"start", "router", "route", "tnea", "future", "finish", "except", "done", "raised"}
    /\ Len(ran) <= 2
    /\ pc = "done" =>
        /\ returned = 1
        /\ result # NoResult
        /\ builtFrom \in {"state", "except"}
        /\ builtFrom = "state" <=> result = StateResult(state, session_id)
        /\ builtFrom = "except" <=> result = ErrorResult(pending, session_id)

\* C2 witness: a call that reached the Domain Responder, whose vector search
\* then failed, returned one result
C2_Witness ==
    /\ pc = "done"
    /\ ~sinkFailed
    /\ ran = <<"router", "tnea">>
    /\ search = Search(TRUE, TRUE, <<>>)
    /\ returned = 1

\* the processing_node of the handler behind an edge
HandlerName(edge) == IF edge = "tnea" THEN "TNEANode" ELSE "FutureNode"

\* C3: in every returned result processing_node is never "unknown"; it is
\* "error" exactly when the result was built by the except clause of
\* process_query; otherwise it is the name of the handler that the routing
\* decision selected, and that handler is the one that ran (the Fallback
\* Responder when the classifier failed).
C3_ProcessingNodeMatchesRoute ==
    pc = "done" =>
        /\ result.processing_node # "unknown"
        /\ result.processing_node = "error" <=> builtFrom = "except"
        /\ builtFrom = "state" =>
            /\ routed \in {"tnea", "future"}
            /\ ran = <<"router", routed>>
            /\ result.processing_node = HandlerName(routed)
            /\ result.processing_node = "TNEANode" <=> routed = "tnea"
            /\ result.processing_node = "FutureNode" <=> routed = "future"
            /\ reply = ReplyRaise => result.processing_node = "FutureNode"

\* C3 witness: the Domain Responder was selected, failed in retrieval, and
\* the result still names it
C3_Witness ==
    /\ pc = "done"
    /\ builtFrom = "state"
    /\ routed = "tnea"
    /\ retrieved.tag = "exc"
    /\ result.processing_node = "TNEANode"

\* C4: when the chat completion of the classification raises, analyze_intent
\* returns {FUTURE, 0.0, reasoning with the error text}; while the audit
\* sink works the call then neither raises nor reaches the except clause,
\* and it returns processing_node "FutureNode" with success true.
C4_ClassifierFailure ==
    reply = ReplyRaise =>
        /\ verdict.tag = "ret"
        /\ verdict.val.isDict
        /\ verdict.val.intent = Str(FUTURE)
        /\ verdict.val.confidence = Num(0)
        /\ \E i \in 1..Len(verdict.val.reasoning) : verdict.val.reasoning[i] = "APIError"
        /\ ~sinkFailed => pc \notin {"except", "raised"}
        /\ (pc = "done" /\ ~sinkFailed) =>
            /\ result.processing_node = "FutureNode"
            /\ result.success
            /\ ran = <<"router", "future">>

\* C4 witness: a call whose classification completion raised has returned
C4_Witness ==
    /\ reply = ReplyRaise
    /\ pc = "done"
    /\ ~sinkFailed
    /\ result.success

\* the reply r of the chat completion is not a structured verdict: no
\* content, text that is not JSON, or JSON that is not an object with the
\* keys intent and confidence
NotStructured(r) ==
    \/ r.kind \in {"null", "text"}
    \/ r.kind = "json" /\ (~r.value.isDict \/ r.value.intent = Missing
                           \/ r.value.confidence = Missing)

\* analyze_intent returned a verdict with this intent and confidence
VerdictIs(intent, confidence) ==
    /\ verdict.tag = "ret"
    /\ verdict.val.isDict
    /\ verdict.val.intent = Str(intent)
    /\ verdict.val.confidence = Num(confidence)

\* C5: whenever the reply to the classification call is not a structured
\* verdict, analyze_intent returns one of the four verdicts of the keyword
\* heuristic, with confidence at least 0.5: never an exception, never a
\* value that is not a verdict, never the confidence-0.0 failure verdict.
C5_ParseFailureToHeuristic ==
    (NotStructured(reply) /\ verdict # NoVerdict) =>
        /\ \/ VerdictIs(FUTURE, 80)
           \/ VerdictIs(TNEA, 80)
           \/ VerdictIs(TNEA, 70)
           \/ VerdictIs(FUTURE, 50)
        /\ verdict.val.confidence.n >= 50

\* the keyword heuristic ran in analyze_intent
HeuristicRan == reply.kind = "text" /\ verdict.tag = "ret"

\* C6 as stated in the specification: when the keyword heuristic runs, its verdict follows from
\* the keyword groups found in the lower-cased query alone: medical without
\* domain keyword gives FUTURE/0.8, any domain keyword TNEA/0.8, marks and
\* college language TNEA/0.7, anything else FUTURE/0.5.
C6_QueryAloneDecides ==
    HeuristicRan =>
        IF has_medical_terms(query) /\ ~has_engineering_terms(query) THEN VerdictIs(FUTURE, 80)
        ELSE IF has_engineering_terms(query) THEN VerdictIs(TNEA, 80)
        ELSE IF has_marks(query) /\ has_college(query) THEN VerdictIs(TNEA, 70)
        ELSE VerdictIs(FUTURE, 50)

\* the unparseable reply mentions "tnea" in any letter case
ReplyMentionsTnea == Contains(Lower(reply.text), <<"t", "n", "e", "a">>)

\* C6 as amended: when the keyword heuristic runs, its verdict follows from
\* the keyword groups found in the lower-cased query and from whether the
\* unparseable reply mentions "tnea": (1) medical keyword and no domain
\* keyword gives FUTURE/0.8; (2) otherwise a domain keyword in the query, or
\* "tnea" in the reply, gives TNEA/0.8, as for "What is the cutoff for CSE
\* in X College?"; (3) otherwise marks and college language give TNEA/0.7;
\* (4) otherwise FUTURE/0.5.
C6_HeuristicPriority ==
    HeuristicRan =>
        /\ (has_medical_terms(query) /\ ~has_engineering_terms(query)) => VerdictIs(FUTURE, 80)
        /\ has_engineering_terms(query) => VerdictIs(TNEA, 80)
        /\ (~has_medical_terms(query) /\ ReplyMentionsTnea) => VerdictIs(TNEA, 80)
        /\ (~has_medical_terms(query) /\ ~has_engineering_terms(query) /\ ~ReplyMentionsTnea
              /\ has_marks(query) /\ has_college(query)) => VerdictIs(TNEA, 70)
        /\ (~has_medical_terms(query) /\ ~has_engineering_terms(query) /\ ~ReplyMentionsTnea
              /\ ~(has_marks(query) /\ has_college(query))) => VerdictIs(FUTURE, 50)
        /\ query = QCutoff => VerdictIs(TNEA, 80)
        /\ query = QDoctor => VerdictIs(FUTURE, 80)
        /\ (query = QMark /\ reply.text = TextPlain) => VerdictIs(TNEA, 70)
        /\ (query = QHello /\ reply.text = TextPlain) => VerdictIs(FUTURE, 50)

\* C6 witness: a query without any keyword was classified TNEA/0.8 because
\* the unparseable reply mentioned TNEA
C6_Witness ==
    /\ HeuristicRan
    /\ query = QHello
    /\ reply.text = TextTnea
    /\ VerdictIs(TNEA, 80)

\* C7: for "Tell me about NEET medical admissions" with a reply that is not
\* JSON, the heuristic answers FUTURE/0.8 and the router takes the edge to
\* the Fallback Responder.
C7_NeetIsOther ==
    (query = QNeet /\ HeuristicRan) =>
        /\ VerdictIs(FUTURE, 80)
        /\ routed # "tnea"

RECURSIVE FormattablePrefix(_)
\* how many leading matches have metadata that can be formatted
FormattablePrefix(ms) ==
    IF ms = <<>> \/ Head(ms).meta = "none" THEN 0 ELSE 1 + FormattablePrefix(Tail(ms))

\* the first k formatted blocks of the matches ms
PrefixBlocks(ms, k) == [i \in 1..k |-> Block(i, BlockOverhead + ms[i].payload)]

\* the greatest k such that the first k blocks together are within budget
LongestPrefix(ms, budget) ==
    CHOOSE k \in 0..FormattablePrefix(ms) :
        /\ SumLen(PrefixBlocks(ms, k)) <= budget
        /\ \A j \in (k + 1)..FormattablePrefix(ms) : SumLen(PrefixBlocks(ms, j)) > budget

FiveBlocksOf400 == [i \in 1..5 |-> Match(343)]

\* C8 as stated in the specification: for every list of matches and every budget the returned
\* context is the concatenation of the longest prefix of the formatted
\* blocks whose total length is within max_context_length.
C8_AlwaysLongestPrefix ==
    ctxOut.tag = "ret" =>
        ctxOut.val = PrefixBlocks(ctxSearch.matches, LongestPrefix(ctxSearch.matches, ctxMax))

\* C8 as amended: when the first formatted block fits max_context_length,
\* the returned context is the concatenation of the longest prefix of the
\* formatted blocks whose total length is within the budget, whole blocks
\* only and nothing after the first block that does not fit (five blocks of
\* 400 and a budget of 1000 give the first two, 800 characters); when there
\* is no match, or the first block alone exceeds the budget, the context is
\* a fixed sentinel text and not the empty concatenation.
C8_LongestPrefixOrSentinel ==
    ctxOut.tag = "ret" =>
        LET ms == ctxSearch.matches
            k == LongestPrefix(ms, ctxMax)
        IN  /\ k >= 1 => ctxOut.val = PrefixBlocks(ms, k)
            /\ (k = 0 /\ ms = <<>>) => ctxOut.val = <<NoDocuments>>
            /\ (k = 0 /\ ms # <<>>) => ctxOut.val = <<NoContext>>
            /\ (ms = FiveBlocksOf400 /\ ctxMax = 1000) =>
                   /\ ctxOut.val = <<Block(1, 400), Block(2, 400)>>
                   /\ SumLen(ctxOut.val) = 800

\* C8 witness: five blocks of 400 characters under a budget of 1000 gave the
\* first two blocks
C8_Witness ==
    /\ ctxSearch.matches = FiveBlocksOf400
    /\ ctxMax = 1000
    /\ ctxOut.tag = "ret"
    /\ ctxOut.val = <<Block(1, 400), Block(2, 400)>>

\* C9: the context returned by get_context_for_query is never longer than
\* max_context_length, also when nothing was found and when the first block
\* alone exceeds the budget.
C9_ContextWithinBudget ==
    ctxOut.tag = "ret" => SumLen(ctxOut.val) <= ctxMax

\* C10: the context get_context_for_query returns to the Domain Responder is
\* never the empty string; when the search found no match it is the "no
\* documents found" sentinel, and, while the audit sink works, the Domain
\* Responder then calls text generation with exactly that context.
C10_NeverEmptyContext ==
    retrieved.tag = "ret" =>
        /\ retrieved.val # <<>>
        /\ SumLen(retrieved.val) > 0
        /\ search.matches = <<>> => retrieved.val = <<NoDocuments>>
        /\ ~sinkFailed =>
            /\ genContext = retrieved.val
            /\ calls = <<"classification", "embedding", "vector_search", "generation">>

\* C10 witness: the search found nothing and text generation was called with
\* the sentinel as context
C10_Witness ==
    /\ retrieved.tag = "ret"
    /\ search = Search(TRUE, FALSE, <<>>)
    /\ genContext = <<NoDocuments>>
    /\ calls[Len(calls)] = "generation"
    /\ ~sinkFailed


\* the Domain Responder ran in this call of process_query
TneaRan == Len(ran) = 2 /\ ran[2] = "tnea"

\* ... and met an uninitialised index or a failing index query
VectorSearchFailed == TneaRan /\ (~search.indexOk \/ search.queryFails)

\* C11: a vector-search failure (an uninitialised index included) is raised
\* by search_similar, raised again unchanged by get_context_for_query, and
\* text generation is not called for that query; while the audit sink works,
\* TNEANode.process is the one place that handles it: nothing is raised to
\* the graph or pending at the top level, the state and the result carry
\* the fixed apology as response, processing_node "TNEANode", and the state
\* records the error.
C11_SearchFailureHandledByTnea ==
    VectorSearchFailed =>
        /\ search_similar(search) = Raise("PineconeError")
        /\ retrieved = Raise("PineconeError")
        /\ \A i \in 1..Len(calls) : calls[i] # "generation"
        /\ genContext = <<>>
        /\ ~sinkFailed =>
            /\ pc \in {"finish", "done"}
            /\ pending = "none"
            /\ state.response = TneaApology
            /\ state.processing_node = "TNEANode"
            /\ state.error = "PineconeError"
            /\ pc = "done" =>
                /\ builtFrom = "state"
                /\ result.response = TneaApology
                /\ result.processing_node = "TNEANode"

\* a run that met an uninitialised index came back with the apology
C11_Witness ==
    /\ VectorSearchFailed
    /\ ~search.indexOk
    /\ ~sinkFailed
    /\ pc = "done"
    /\ result.response = TneaApology


\* text generation was called and its chat completion raised
GenerationFailed == TneaRan /\ generation = "raise"

\* C12: whenever the Domain Responder fails while the audit sink works, in
\* retrieval or in text generation, the response it writes is the one fixed
\* apology, whichever step failed and whatever the error says, and nothing
\* is raised to the graph.
C12_OneApologyForEveryFailure ==
    ((VectorSearchFailed \/ GenerationFailed) /\ ~sinkFailed) =>
        /\ pc \in {"finish", "done"}
        /\ state.response = TneaApology
        /\ \A i \in 1..Len(state.response) : state.response[i] # "APIError"


\* C13: whenever an exception left the try body of process_query (the graph
\* traversal included) and process_query returned, the result was built by
\* the except clause: success false, processing_node "error", intent null,
\* the generic apology as response, and the error only in the error field,
\* no part of the response being the error's text.
C13_TopLevelErrorResult ==
    (pc = "done" /\ pending # "none") =>
        /\ builtFrom = "except"
        /\ returned = 1
        /\ result.success = FALSE
        /\ result.processing_node = "error"
        /\ result.intent = NoneV
        /\ result.response = GenericApology
        /\ result.error = pending
        /\ \A i \in 1..Len(result.response) : result.response[i] # pending

\* an exception left the Domain Responder, so the traversal, and
\* process_query returned the error result
C13_Witness ==
    /\ pc = "done"
    /\ ran = <<"router", "tnea">>
    /\ state.response = NoResponse
    /\ pending = "SinkError"
    /\ result.processing_node = "error"


\* C14: a failure of the audit sink at any of its call sites does not change
\* the outcome of process_query: no exception leaves it, and the result is
\* the success result of the handler that ran, as it is when the sink works
\* (never the top-level error result, never a handler's apology for the
\* sink's own error).
C14_SinkFailureHarmless ==
    sinkFailed =>
        /\ pc # "raised"
        /\ pc = "done" =>
            /\ result.success
            /\ result.processing_node \in {TneaName, FutureName}
            /\ result.error = Absent
            /\ state.error # "SinkError"


\* C15: in every call of process_query the session id of the returned
\* result is a generated, non-empty identifier, the one the graph state
\* carried into every node and the one every logging call received; this
\* holds for the result built from the final state and for the one built by
\* the top-level except clause.
C15_OneSessionIdThroughout ==
    /\ \A s \in logged : s = session_id
    /\ ran # <<>> => state.session_id = session_id
    /\ pc = "done" =>
        /\ result.session_id \in SessionIds
        /\ result.session_id # ""
        /\ result.session_id = session_id
        /\ logged = {result.session_id}
        /\ ran # <<>> => state.session_id = result.session_id

\* both kinds of result were returned after nodes ran and logged
C15_Witness ==
    /\ pc = "done"
    /\ builtFrom = "state"
    /\ Len(ran) = 2
    /\ logged = {result.session_id}
    /\ result.session_id = "session-2"

\* the same on the top-level error path
C15_WitnessError ==
    /\ pc = "done"
    /\ builtFrom = "except"
    /\ ran # <<>>
    /\ logged = {result.session_id}


\* C16: a session identifier is generated only when the caller supplied
\* none: the result returned for a request that carries a session_id
\* carries that same session_id.
C16_CallerSessionIdKept ==
    (pc = "done" /\ request_session_id # Absent) =>
        result.session_id = request_session_id


\* C17: of the Domain Responder calls made so far, every call uses a
\* conversation thread; two calls with the same session_id use the same
\* thread, created at most once, by the first of them; and a call with a
\* session_id not seen before creates a new thread, distinct from those of
\* all earlier calls.
C17_ThreadPerSession ==
    \A j \in 1..Len(domainCalls) :
        LET seenBefore == \E i \in 1..(j - 1) :
                              domainCalls[i].session_id = domainCalls[j].session_id
        IN  /\ domainCalls[j].thread # NoThread
            /\ \A i \in 1..(j - 1) :
                   domainCalls[i].session_id = domainCalls[j].session_id =>
                       /\ domainCalls[i].thread = domainCalls[j].thread
                       /\ ~domainCalls[j].created
            /\ ~seenBefore =>
                   /\ domainCalls[j].created
                   /\ \A i \in 1..(j - 1) : domainCalls[i].thread # domainCalls[j].thread


\* the Fallback Responder ran in this call of process_query
FutureRan == Len(ran) = 2 /\ ran[2] = "future"

\* a keyword of the group occurs in the lower-cased query q
GroupOccurs(words, q) == \E i \in 1..Len(words) : Contains(Lower(q), words[i])

\* C19: while the audit sink works, the response FutureNode.process writes
\* is the base template followed by at most one sentence: that of the first
\* group, in the order medical, arts/commerce, career/placement, with a
\* keyword occurring in the lower-cased query, and the base template alone
\* when no group has one; processing_node is "FutureNode" and the result
\* carries the same text.
C19_FallbackText ==
    (FutureRan /\ ~sinkFailed) =>
        LET text == state.response
            medical == GroupOccurs(future_medical_words, query)
            arts == GroupOccurs(future_arts_words, query)
            career == GroupOccurs(future_career_words, query)
        IN  /\ Len(text) \in {1, 2}
            /\ text[1] = "base_response"
            /\ medical => text = <<"base_response", "medical note">>
            /\ (~medical /\ arts) => text = <<"base_response", "arts/commerce note">>
            /\ (~medical /\ ~arts /\ career) => text = <<"base_response", "career note">>
            /\ (~medical /\ ~arts /\ ~career) => text = <<"base_response">>
            /\ query = QArts => text = <<"base_response", "medical note">>
            /\ query = QCommerce => text = <<"base_response", "arts/commerce note">>
            /\ query = QPlacement => text = <<"base_response", "career note">>
            /\ query = QHello => text = <<"base_response">>
            /\ state.processing_node = "FutureNode"
            /\ pc = "done" => (result.response = text /\ result.processing_node = "FutureNode")

\* a query naming a medical, an arts and a career keyword got the medical
\* sentence from the Fallback Responder
C19_Witness ==
    /\ FutureRan
    /\ ~sinkFailed
    /\ pc = "done"
    /\ query = QArts
    /\ result.response = <<"base_response", "medical note">>


\* which of the three outcomes a returned result is, by what was answered:
\* generated text, the fallback template, or an apology
OutcomeKind(r) ==
    IF r.response = <<"generated">> THEN "domain"
    ELSE IF r.response[1] = "base_response" THEN "fallback"
    ELSE "apology"

\* the outcome that a pair (processing_node, success) stands for: a domain
\* answer comes with ("TNEANode", true), a fallback answer with
\* ("FutureNode", true)
KindOfPair(node, success) ==
    IF node = "TNEANode" /\ success THEN "domain"
    ELSE IF node = "FutureNode" /\ success THEN "fallback"
    ELSE "apology"

\* C20: the pair (processing_node, success) of a returned result determines
\* which outcome occurred: answered from domain knowledge, answered with the
\* fallback template, or answered with an error apology; so a result that
\* carries the pair of a domain answer or of a fallback answer is one (taken
\* over the runs in which the audit sink works).
C20_PairDeterminesOutcome ==
    (pc = "done" /\ ~sinkFailed) =>
        OutcomeKind(result) = KindOfPair(result.processing_node, result.success)


\* C21: in every returned result the intent is "TNEA" or "FUTURE", or null
\* when the result was built by the top-level except clause, and the
\* confidence is a number in [0.0, 1.0], whatever the chat completion
\* answered to the classifier (results of runs in which the audit sink
\* failed inside a node are left aside).
C21_VerdictInContract ==
    pc = "done" =>
        /\ builtFrom = "except" =>
            /\ result.intent = NoneV
            /\ result.confidence = Num(0)
        /\ (builtFrom = "state" /\ ~sinkFailed) =>
            /\ result.intent \in {Str(TNEA), Str(FUTURE)}
            /\ result.confidence.t = "num"
            /\ result.confidence.n >= 0
            /\ result.confidence.n <= 100


\* the place of an external call in the order the code issues them
CallRank(c) ==
    CASE c = "classification" -> 1
      [] c = "embedding" -> 2
      [] c = "vector_search" -> 3
      [] c = "generation" -> 4

\* C22: in every run of process_query the router node runs first and once,
\* then one of the two handler nodes, the one the edge chose, runs once, then
\* no node runs any more (a result built from the final state has seen
\* exactly these two nodes); and the external calls start strictly in the
\* order classification, embedding, vector search, text generation, the
\* vector search only with the embedding returned and the generation only
\* with the retrieved context returned.
C22_NodeOrder ==
    /\ Len(ran) <= 2
    /\ Len(ran) >= 1 => ran[1] = "router"
    /\ Len(ran) = 2 =>
        /\ ran[2] \in {"tnea", "future"}
        /\ ran[2] = routed
        /\ pc \in {"finish", "except", "done", "raised"}
    /\ pc \in {"router", "start"} => ran = <<>>
    /\ pc \in {"route", "tnea", "future"} => ran = <<"router">>
    /\ (pc = "done" /\ builtFrom = "state") => Len(ran) = 2
    /\ \A i, j \in 1..Len(calls) : i < j => CallRank(calls[i]) < CallRank(calls[j])
    /\ \A i \in 1..Len(calls) :
        /\ calls[i] \in {"embedding", "vector_search", "generation"} => TneaRan
        /\ calls[i] = "vector_search" =>
               (i > 1 /\ calls[i - 1] = "embedding" /\ embedding > 0)
        /\ calls[i] = "generation" =>
               (i > 1 /\ calls[i - 1] = "vector_search" /\ retrieved.tag = "ret"
                /\ genContext = retrieved.val)

\* a run through the Domain Responder that made all four external calls
C22_Witness ==
    /\ pc = "done"
    /\ ran = <<"router", "tnea">>
    /\ calls = <<"classification", "embedding", "vector_search", "generation">>
    /\ result.response = <<"generated">>


\* how many times the external call c was issued in this run
TimesCalled(c) == Cardinality({i \in 1..Len(calls) : calls[i] = c})

\* C23: within one call of process_query the classification completion, the
\* embedding call, the vector search and the text generation are each issued
\* at most once, also when they fail; a failed classification is turned, once,
\* into the error verdict, a failed embedding into the placeholder vector,
\* and a failed vector search (while the audit sink works) into the recorded
\* error with the apology; process_query returns at most once.
C23_NoRetry ==
    /\ \A c \in {"classification", "embedding", "vector_search", "generation"} :
           TimesCalled(c) <= 1
    /\ Len(calls) <= 4
    /\ returned <= 1
    /\ reply.kind = "raise" =>
           (TimesCalled("classification") = 1 /\ verdict = Ret(ErrorVerdict("APIError")))
    /\ (TneaRan /\ embedding = DummyEmbeddingDim) => TimesCalled("embedding") = 1
    /\ (VectorSearchFailed /\ search.indexOk) =>
        /\ TimesCalled("vector_search") = 1
        /\ TimesCalled("generation") = 0
        /\ ~sinkFailed => (state.error = "PineconeError" /\ state.response = TneaApology)

\* a run whose index query failed after a failed embedding call: one
\* attempt each, then the apology
C23_Witness ==
    /\ pc = "done"
    /\ VectorSearchFailed
    /\ search.indexOk
    /\ embedding = DummyEmbeddingDim
    /\ calls = <<"classification", "embedding", "vector_search">>
    /\ result.response = TneaApology


\* the stateful path failed and the call is over
AssistantPathFailed == asstFailure # "none" /\ apc \in {"returned", "raised"}

\* C24: when a step of the stateful path fails (assistant or thread
\* creation, message send, run creation, a run ending in a status other
\* than completed, a latest message not from the assistant), the call does
\* not raise: it makes exactly one stateless completion, with the same
\* system prompt as the stateful path and with the current query and
\* context only, and returns that completion's text.
C24_FallbackSamePrompt ==
    AssistantPathFailed =>
        /\ apc = "returned"
        /\ asstOut.tag = "ret"
        /\ Len(completions) = 1
        /\ completions[1].system_prompt = AssistantInstructions
        /\ completions[1].user_message = UserMessage(asstContext, query)
        /\ asstOut.val = FallbackText


\* runs.create returned a run
RunCreated == runStatus # "none"

\* what generate_response_fallback can return for this call
FallbackResults ==
    {generate_response_fallback(query, asstContext, fb) : fb \in {"ok", "null", "raise"}}

\* what a call that got as far as the polling loop returned: the latest
\* message when the run completed and that message is the assistant's, the
\* fallback's result after one stateless completion otherwise
ReturnedValueAsStated ==
    (apc = "returned" /\ RunCreated) =>
        IF asstFailure = "none"
        THEN /\ runStatus = "completed"
             /\ asstOut = Ret(AssistantText)
             /\ completions = <<>>
        ELSE /\ Len(completions) = 1
             /\ asstOut \in FallbackResults
             /\ asstFailure = "status" => runStatus \notin {"queued", "in_progress", "completed"}

\* C30 as stated: the polling loop goes on exactly while the status is
\* queued or in_progress, so a call that reached the loop and returned saw
\* the status take another value (and a call whose status never leaves
\* queued/in_progress never returns); what it returned is the latest message
\* or the fallback's result as above.
C30_ReturnsOnlyAfterStatusLeft ==
    /\ ReturnedValueAsStated
    /\ (apc = "returned" /\ RunCreated) => runStatus \notin {"queued", "in_progress"}

\* C30, amended: the same, except that a status retrieval that raises also
\* ends the loop, with the fallback's result: a call that reached the loop
\* and returned either saw the status leave queued/in_progress or had a
\* retrieval raise; while neither happens the loop goes on, at any number
\* of polls; and once the status is another value the call eventually
\* returns.
C30_PollingLoop ==
    /\ [](/\ ReturnedValueAsStated
          /\ (apc = "returned" /\ RunCreated /\ asstFailure # "retrieve") =>
                 runStatus \notin {"queued", "in_progress"}
          /\ (apc = "loop" /\ runStatus \in {"queued", "in_progress"}) => asstOut = NotRun
          /\ polls > 0 => RunCreated)
    /\ ((apc = "loop" /\ runStatus \notin {"queued", "in_progress"}) ~> (apc = "returned"))

\* a call that polled to the bound and then returned the assistant's message
C30_Witness ==
    /\ apc = "returned"
    /\ polls = MaxPolls
    /\ runStatus = "completed"
    /\ asstOut = Ret(AssistantText)

\* a call still polling at the bound
C30_WitnessStillPolling ==
    /\ apc = "loop"
    /\ polls = MaxPolls
    /\ runStatus = "in_progress"


\* the threads some OpenAIService instance has a table entry for
TabledThreads ==
    UNION {{services[k][x] : x \in DOMAIN services[k]} : k \in 1..Len(services)}

\* C25: cleanup_thread leaves the session without a table entry and its
\* thread deleted on the server, so that at any time every thread that
\* exists on the server is the handle of some table entry.
C25_NoThreadWithoutEntry ==
    \A t \in serverThreads : t \in TabledThreads


\* the result of process_query for the inputs inp and the session id sid
\* when it runs alone and the audit sink works
ExpectedResult(inp, sid) ==
    LET routed_state == RouterNodeProcess(InitialState(inp.query, sid),
                                          analyze_intent(inp.query, inp.reply), 0, FALSE).val
        final == IF route_decision(routed_state) = "tnea"
                 THEN TneaNodeProcess(routed_state, inp.search, inp.gen, 0, FALSE).val
                 ELSE FutureNodeProcess(routed_state, 0, FALSE).val
    IN  StateResult(final, sid)

\* C27: under every interleaving of two concurrent calls of process_query,
\* the two calls have distinct session ids, the graph state a call works on
\* carries its own query and session id at every step, and the result of
\* each call (response, intent, confidence, processing_node, session_id) is
\* the one its own query and the replies to its own external calls give.
C27_RequestsIsolated ==
    /\ \A t, u \in Tasks : (t # u /\ tsid[t] # Absent) => tsid[t] # tsid[u]
    /\ \A t \in Tasks :
        /\ tpc[t] \notin {"start", "done"} =>
            /\ tstates[StateSlot(t)].query = tinput[t].query
            /\ tstates[StateSlot(t)].session_id = tsid[t]
        /\ tpc[t] = "done" => tresult[t] = ExpectedResult(tinput[t], tsid[t])

\* both calls returned, one from the Domain Responder and one from the
\* Fallback Responder
C27_Witness ==
    /\ tpc[1] = "done"
    /\ tpc[2] = "done"
    /\ tresult[1].processing_node = "TNEANode"
    /\ tresult[1].response = <<"generated">>
    /\ tresult[2].processing_node = "FutureNode"
    /\ tresult[1].session_id # tresult[2].session_id


\* C26: when several calls of process_query are in flight on the event
\* loop and an external call of one of them hangs, only that request is
\* delayed: every other request, whose own external calls return, eventually
\* completes.
C26_OthersComplete ==
    \A t \in Tasks : (hung # t) => <>(tpc[t] = "done")


\* C28: when the embedding call fails or returns nothing,
\* _get_query_embedding does not raise and returns the placeholder vector,
\* whose length is that of a successfully computed embedding, so the vector
\* the Domain Responder goes on to search with has that length in every
\* run, and the search is called whenever the index is there.
C28_PlaceholderHasEmbeddingLength ==
    TneaRan =>
        /\ embedding = EmbeddingDim
        /\ TimesCalled("embedding") = 1
        /\ search.indexOk => TimesCalled("vector_search") = 1


\* a step of a handler node leaves the router's fields of the state alone
HandlerKeepsRouterFields ==
    pc \in {"tnea", "future"} =>
        /\ state'.intent = state.intent
        /\ state'.confidence = state.confidence
        /\ state'.next_node = state.next_node
        /\ state'.query = state.query
        /\ state'.user_id = state.user_id
        /\ state'.session_id = state.session_id

\* C29: once the router node has written intent, confidence and next_node,
\* no handler node step changes them, nor query, user_id or session_id,
\* whether the handler succeeds or takes its except clause; and the intent
\* and confidence of a result built from the final state are the values in
\* that state, that is the ones the router recorded.
C29_HandlersKeepVerdict ==
    /\ [][HandlerKeepsRouterFields]_vars
    /\ []((pc = "done" /\ builtFrom = "state") =>
            /\ result.intent = state.intent
            /\ result.confidence = state.confidence
            /\ (DomainAboveThreshold(verdict) /\ ~sinkFailed) =>
                   (result.intent = Str(TNEA) /\ result.confidence = verdict.val.confidence))

\* the Domain Responder took its except clause and the result still
\* carries the router's verdict
C29_Witness ==
    /\ pc = "done"
    /\ TneaRan
    /\ state.error = "PineconeError"
    /\ result.response = TneaApology
    /\ result.intent = Str(TNEA)
    /\ result.confidence = Num(90)

====
